---- MODULE Spec2Model ----
(***************************************************************************)
(* firewalld IpTables (src/iptables.cc): the registry of punched holes,    *)
(* the dual-stack accept-rule protocol and the VPN setup sequence, with    *)
(* the external tools (iptables, ip6tables, ip) as an environment whose    *)
(* every command may succeed or fail.                                      *)
(***************************************************************************)
EXTENDS Integers, Sequences, FiniteSets, TLC

VARIABLES
    tcp_holes_,     \* std::set<Hole> tcp_holes_
    udp_holes_,     \* std::set<Hole> udp_holes_
    ip6_enabled_,   \* bool ip6_enabled_
    installed4,     \* accept rules the primary tool holds (added ok, not deleted ok since)
    installed6,     \* accept rules the secondary tool holds
    phase,          \* "alive" | "destroyed" | "aborted" (a CHECK failed)
    call,           \* the last call made on the object and its arguments
    ret,            \* what that call returned
    log             \* the external commands that call issued, in order, with outcomes

vars == <<tcp_holes_, udp_holes_, ip6_enabled_, installed4, installed6,
          phase, call, ret, log>>

(***************************************************************************)
(* Program constants                                                       *)
(***************************************************************************)
kIpTablesPath == "iptables"
kIp6TablesPath == "ip6tables"
kInterfaceNameSize == 16
kProtocolTcp == "tcp"
kProtocolUdp == "udp"
kIPv4 == "IPv4"
kIPv6 == "IPv6"

(***************************************************************************)
(* Characters. A string is a sequence of one-character strings.            *)
(***************************************************************************)
Digits == {"0", "1", "2", "3", "4", "5", "6", "7", "8", "9"}
UpperLetters == {"A", "B", "C", "D", "E", "F", "G", "H", "I", "J", "K", "L", "M",
                 "N", "O", "P", "Q", "R", "S", "T", "U", "V", "W", "X", "Y", "Z"}
LowerLetters == {"a", "b", "c", "d", "e", "f", "g", "h", "i", "j", "k", "l", "m",
                 "n", "o", "p", "q", "r", "s", "t", "u", "v", "w", "x", "y", "z"}

\* The characters in increasing order of their character code.
AsciiOrder ==
    <<" ", "$", "-", ".",
      "0", "1", "2", "3", "4", "5", "6", "7", "8", "9",
      "A", "B", "C", "D", "E", "F", "G", "H", "I", "J", "K", "L", "M",
      "N", "O", "P", "Q", "R", "S", "T", "U", "V", "W", "X", "Y", "Z",
      "a", "b", "c", "d", "e", "f", "g", "h", "i", "j", "k", "l", "m",
      "n", "o", "p", "q", "r", "s", "t", "u", "v", "w", "x", "y", "z">>

CharRank(c) == CHOOSE i \in DOMAIN AsciiOrder : AsciiOrder[i] = c

\* std::isalnum in the "C" locale
IsAlnum(c) == c \in Digits \cup UpperLetters \cup LowerLetters

\* base::StartsWith(str, search, SENSITIVE)
StartsWith(str, search) ==
    /\ Len(search) <= Len(str)
    /\ SubSeq(str, 1, Len(search)) = search

\* base::EndsWith(str, search, SENSITIVE)
EndsWith(str, search) ==
    /\ Len(search) <= Len(str)
    /\ SubSeq(str, Len(str) - Len(search) + 1, Len(str)) = search

IsValidInterfaceNameLenGt(iface) ==
    /\ ~(Len(iface) > kInterfaceNameSize)
    /\ ~(\/ StartsWith(iface, <<"-">>) \/ EndsWith(iface, <<"-">>)
         \/ StartsWith(iface, <<".">>) \/ EndsWith(iface, <<".">>))
    /\ \A k \in 1..Len(iface) :
           ~(~IsAlnum(iface[k]) /\ iface[k] # "-" /\ iface[k] # ".")

IsValidInterfaceName(iface) ==
    /\ ~(Len(iface) >= kInterfaceNameSize)
    /\ ~(\/ StartsWith(iface, <<"-">>) \/ EndsWith(iface, <<"-">>)
         \/ StartsWith(iface, <<".">>) \/ EndsWith(iface, <<".">>))
    /\ \A k \in 1..Len(iface) :
           ~(~IsAlnum(iface[k]) /\ iface[k] # "-" /\ iface[k] # ".")

(***************************************************************************)
(* Holes and their order in a std::set<std::pair<uint16_t, std::string>>   *)
(***************************************************************************)
RECURSIVE StrLess(_, _)
StrLess(a, b) ==
    IF b = <<>> THEN FALSE
    ELSE IF a = <<>> THEN TRUE
    ELSE IF Head(a) # Head(b) THEN CharRank(Head(a)) < CharRank(Head(b))
    ELSE StrLess(Tail(a), Tail(b))

HoleLess(h1, h2) ==
    \/ h1[1] < h2[1]
    \/ h1[1] = h2[1] /\ StrLess(h1[2], h2[2])

\* the elements of a std::set<Hole> in iteration order
RECURSIVE InOrder(_)
InOrder(holes) ==
    IF holes = {} THEN <<>>
    ELSE LET first == CHOOSE h \in holes : \A g \in holes \ {h} : HoleLess(h, g)
         IN  <<first>> \o InOrder(holes \ {first})

(***************************************************************************)
(* The object's members and the environment, as one value `s`, so that an  *)
(* operation can be applied to the state another operation left.           *)
(*   s.tcp, s.udp : the hole sets       s.ip6 : ip6_enabled_               *)
(*   s.r4, s.r6   : installed accept rules   s.log : commands issued       *)
(***************************************************************************)
Cur == [tcp |-> tcp_holes_, udp |-> udp_holes_, ip6 |-> ip6_enabled_,
        r4 |-> installed4, r6 |-> installed6, log |-> <<>>]

AcceptRule(protocol, port, interface) ==
    [protocol |-> protocol, port |-> port, interface |-> interface]

\* One run of the external tool for an accept rule: the command is logged and,
\* when the tool reports success, the tool's rule table changes.
ExecAccept(s, op, path, protocol, port, interface, ok) ==
    LET rule == AcceptRule(protocol, port, interface)
        cmd  == [cmd |-> op, path |-> path, protocol |-> protocol,
                 port |-> port, interface |-> interface, ok |-> ok]
        upd(t) == IF ~ok THEN t
                  ELSE IF op = "AddAccept" THEN t \cup {rule} ELSE t \ {rule}
    IN  [s EXCEPT !.log = Append(@, cmd),
                  !.r4 = IF path = kIpTablesPath THEN upd(@) ELSE @,
                  !.r6 = IF path = kIp6TablesPath THEN upd(@) ELSE @]

AddAcceptRule(s, path, protocol, port, interface, ok) ==
    ExecAccept(s, "AddAccept", path, protocol, port, interface, ok)

DeleteAcceptRule(s, path, protocol, port, interface, ok) ==
    ExecAccept(s, "DeleteAccept", path, protocol, port, interface, ok)

(***************************************************************************)
(* Accept rules on both tools. `o` holds the outcome the environment gives *)
(* each command the call can issue: o.a4 / o.a6 the primary / secondary    *)
(* add, o.d4 / o.d6 the primary / secondary delete.                        *)
(***************************************************************************)
Outcomes == [a4 : BOOLEAN, a6 : BOOLEAN, d4 : BOOLEAN, d6 : BOOLEAN]

\* A punch issues no secondary delete and a plug no add: their outcomes are fixed.
PunchOutcomes == {o \in Outcomes : o.d6}
PlugOutcomes == {o \in Outcomes : o.a4 /\ o.a6}

\* AddAcceptRules that insists on the secondary tool whatever ip6_enabled_ is
AddAcceptRulesStrict(s, protocol, port, interface, o) ==
    LET s1 == AddAcceptRule(s, kIpTablesPath, protocol, port, interface, o.a4)
        s2 == AddAcceptRule(s1, kIp6TablesPath, protocol, port, interface, o.a6)
    IN  IF ~o.a4 THEN [s |-> s1, ret |-> FALSE]
        ELSE IF o.a6 THEN [s |-> [s2 EXCEPT !.ip6 = TRUE], ret |-> TRUE]
        ELSE [s |-> DeleteAcceptRule(s2, kIpTablesPath, protocol, port, interface, o.d4),
              ret |-> FALSE]

\* AddAcceptRules that fails without taking the primary rule back
AddAcceptRulesNoRollback(s, protocol, port, interface, o) ==
    LET s1 == AddAcceptRule(s, kIpTablesPath, protocol, port, interface, o.a4)
        s2 == AddAcceptRule(s1, kIp6TablesPath, protocol, port, interface, o.a6)
    IN  IF ~o.a4 THEN [s |-> s1, ret |-> FALSE]
        ELSE IF o.a6 THEN [s |-> [s2 EXCEPT !.ip6 = TRUE], ret |-> TRUE]
        ELSE IF s2.ip6 THEN [s |-> s2, ret |-> FALSE]
        ELSE [s |-> s2, ret |-> TRUE]

\* AddAcceptRules that stores the secondary command's result in ip6_enabled_
AddAcceptRulesStoreResult(s, protocol, port, interface, o) ==
    LET s1 == AddAcceptRule(s, kIpTablesPath, protocol, port, interface, o.a4)
        s2 == AddAcceptRule(s1, kIp6TablesPath, protocol, port, interface, o.a6)
    IN  IF ~o.a4 THEN [s |-> s1, ret |-> FALSE]
        ELSE [s |-> [s2 EXCEPT !.ip6 = o.a6], ret |-> TRUE]

\* AddAcceptRules that goes on to the secondary tool after a failed primary add
AddAcceptRulesTriesSecondary(s, protocol, port, interface, o) ==
    LET s1 == AddAcceptRule(s, kIpTablesPath, protocol, port, interface, o.a4)
        s2 == AddAcceptRule(s1, kIp6TablesPath, protocol, port, interface, o.a6)
    IN  IF ~o.a4 THEN [s |-> IF o.a6 THEN [s2 EXCEPT !.ip6 = TRUE] ELSE s2,
                       ret |-> FALSE]
        ELSE IF o.a6 THEN [s |-> [s2 EXCEPT !.ip6 = TRUE], ret |-> TRUE]
        ELSE IF s2.ip6 THEN
            [s |-> DeleteAcceptRule(s2, kIpTablesPath, protocol, port, interface, o.d4),
             ret |-> FALSE]
        ELSE [s |-> s2, ret |-> TRUE]

AddAcceptRules(s, protocol, port, interface, o) ==
    LET s1 == AddAcceptRule(s, kIpTablesPath, protocol, port, interface, o.a4)
        s2 == AddAcceptRule(s1, kIp6TablesPath, protocol, port, interface, o.a6)
    IN  IF ~o.a4 THEN [s |-> s1, ret |-> FALSE]
        ELSE IF o.a6 THEN [s |-> [s2 EXCEPT !.ip6 = TRUE], ret |-> TRUE]
        ELSE IF s2.ip6 THEN
            [s |-> DeleteAcceptRule(s2, kIpTablesPath, protocol, port, interface, o.d4),
             ret |-> FALSE]
        ELSE [s |-> s2, ret |-> TRUE]

\* DeleteAcceptRules that gives up after a failed primary delete
DeleteAcceptRulesStopsOnFailure(s, protocol, port, interface, o) ==
    LET s1 == DeleteAcceptRule(s, kIpTablesPath, protocol, port, interface, o.d4)
    IN  IF ~o.d4 \/ ~s1.ip6 THEN [s |-> s1, ret |-> o.d4]
        ELSE [s |-> DeleteAcceptRule(s1, kIp6TablesPath, protocol, port, interface, o.d6),
              ret |-> o.d6]

DeleteAcceptRules(s, protocol, port, interface, o) ==
    LET s1 == DeleteAcceptRule(s, kIpTablesPath, protocol, port, interface, o.d4)
        ip4_success == o.d4
    IN  IF ~s1.ip6 THEN [s |-> s1, ret |-> ip4_success]
        ELSE [s |-> DeleteAcceptRule(s1, kIp6TablesPath, protocol, port, interface, o.d6),
              ret |-> ip4_success /\ o.d6]

(***************************************************************************)
(* HoleRegistry. `holes` names the set the caller passes by pointer:       *)
(* "tcp" for &tcp_holes_, "udp" for &udp_holes_.                           *)
(***************************************************************************)
Hole(port, interface) == <<port, interface>>

\* PunchHole without the lookup of the pair in the set
PunchHoleNoLookup(s, port, interface, holes, protocol, o) ==
    IF port = 0 THEN [s |-> s, ret |-> FALSE]
    ELSE IF ~IsValidInterfaceName(interface) THEN [s |-> s, ret |-> FALSE]
    ELSE LET r == AddAcceptRules(s, protocol, port, interface, o)
         IN  IF ~r.ret THEN [s |-> r.s, ret |-> FALSE]
             ELSE [s |-> [r.s EXCEPT ![holes] = @ \cup {Hole(port, interface)}],
                   ret |-> TRUE]

\* PunchHole without the test for port 0
PunchHoleNoPortTest(s, port, interface, holes, protocol, o) ==
    IF ~IsValidInterfaceName(interface) THEN [s |-> s, ret |-> FALSE]
    ELSE IF Hole(port, interface) \in s[holes] THEN [s |-> s, ret |-> TRUE]
    ELSE LET r == AddAcceptRules(s, protocol, port, interface, o)
         IN  IF ~r.ret THEN [s |-> r.s, ret |-> FALSE]
             ELSE [s |-> [r.s EXCEPT ![holes] = @ \cup {Hole(port, interface)}],
                   ret |-> TRUE]

PunchHole(s, port, interface, holes, protocol, o) ==
    IF port = 0 THEN [s |-> s, ret |-> FALSE]
    ELSE IF ~IsValidInterfaceName(interface) THEN [s |-> s, ret |-> FALSE]
    ELSE IF Hole(port, interface) \in s[holes] THEN [s |-> s, ret |-> TRUE]
    ELSE LET r == AddAcceptRules(s, protocol, port, interface, o)
         IN  IF ~r.ret THEN [s |-> r.s, ret |-> FALSE]
             ELSE [s |-> [r.s EXCEPT ![holes] = @ \cup {Hole(port, interface)}],
                   ret |-> TRUE]

\* PlugHole made idempotent: an untracked pair is a success
PlugHoleIdempotent(s, port, interface, holes, protocol, o) ==
    IF port = 0 THEN [s |-> s, ret |-> FALSE]
    ELSE IF Hole(port, interface) \notin s[holes] THEN [s |-> s, ret |-> TRUE]
    ELSE LET r == DeleteAcceptRules(s, protocol, port, interface, o)
         IN  IF ~r.ret THEN [s |-> r.s, ret |-> FALSE]
             ELSE [s |-> [r.s EXCEPT ![holes] = @ \ {Hole(port, interface)}],
                   ret |-> TRUE]

\* PlugHole that stops tracking the pair before it looks at the commands' result
PlugHoleEraseFirst(s, port, interface, holes, protocol, o) ==
    IF port = 0 THEN [s |-> s, ret |-> FALSE]
    ELSE IF Hole(port, interface) \notin s[holes] THEN [s |-> s, ret |-> FALSE]
    ELSE LET r == DeleteAcceptRules(s, protocol, port, interface, o)
         IN  [s |-> [r.s EXCEPT ![holes] = @ \ {Hole(port, interface)}],
              ret |-> r.ret]

\* PlugHole that forgets the pair without deleting its rules
PlugHoleKeepsRules(s, port, interface, holes, protocol, o) ==
    IF port = 0 THEN [s |-> s, ret |-> FALSE]
    ELSE IF Hole(port, interface) \notin s[holes] THEN [s |-> s, ret |-> FALSE]
    ELSE [s |-> [s EXCEPT ![holes] = @ \ {Hole(port, interface)}], ret |-> TRUE]

PlugHole(s, port, interface, holes, protocol, o) ==
    IF port = 0 THEN [s |-> s, ret |-> FALSE]
    ELSE IF Hole(port, interface) \notin s[holes] THEN [s |-> s, ret |-> FALSE]
    ELSE LET r == DeleteAcceptRules(s, protocol, port, interface, o)
         IN  IF ~r.ret THEN [s |-> r.s, ret |-> FALSE]
             ELSE [s |-> [r.s EXCEPT ![holes] = @ \ {Hole(port, interface)}],
                   ret |-> TRUE]

\* The loop of PlugAllHoles over one snapshot: `todo` is what is left of the
\* copied set, in iteration order. fail4 / fail6 are the <<protocol, hole>> whose
\* primary / secondary delete the environment fails.
RECURSIVE PlugEach(_, _, _, _, _, _)
PlugEach(s, todo, holes, protocol, fail4, fail6) ==
    IF todo = <<>> THEN s
    ELSE LET hole == Head(todo)
             o == [a4 |-> TRUE, a6 |-> TRUE,
                   d4 |-> <<protocol, hole>> \notin fail4,
                   d6 |-> <<protocol, hole>> \notin fail6]
             r == PlugHole(s, hole[1], hole[2], holes, protocol, o)
         IN  PlugEach(r.s, Tail(todo), holes, protocol, fail4, fail6)

\* PlugAllHoles without its two CHECKs
PlugAllHolesNoCheck(s, fail4, fail6) ==
    LET s1 == PlugEach(s, InOrder(s.tcp), "tcp", kProtocolTcp, fail4, fail6)
        s2 == PlugEach(s1, InOrder(s1.udp), "udp", kProtocolUdp, fail4, fail6)
    IN  [s |-> s2, ret |-> TRUE]

\* Returns the state the two loops leave and whether both CHECKs pass.
PlugAllHoles(s, fail4, fail6) ==
    LET s1 == PlugEach(s, InOrder(s.tcp), "tcp", kProtocolTcp, fail4, fail6)
        s2 == PlugEach(s1, InOrder(s1.udp), "udp", kProtocolUdp, fail4, fail6)
    IN  [s |-> s2, ret |-> Cardinality(s2.tcp) = 0 /\ Cardinality(s2.udp) = 0]

(***************************************************************************)
(* VPN setup. These operations touch no member of the object: they take    *)
(* the commands issued so far and return every run the environment allows, *)
(* as a set of [log, ret] (each command either succeeds or fails).         *)
(***************************************************************************)
Exec(l, cmd) == {[log |-> Append(l, [cmd EXCEPT !.ok = b]), ret |-> b] : b \in BOOLEAN}

ApplyMasquerade(l, path, interface, add) ==
    Exec(l, [cmd |-> "Masquerade", path |-> path, interface |-> interface,
             add |-> add, ok |-> TRUE])

ApplyMarkForUserTraffic(l, path, user_name, add) ==
    Exec(l, [cmd |-> "MarkForUserTraffic", path |-> path, user |-> user_name,
             add |-> add, ok |-> TRUE])

ApplyRuleForUserTraffic(l, ip_version, add) ==
    Exec(l, [cmd |-> "RuleForUserTraffic", version |-> ip_version,
             add |-> add, ok |-> TRUE])

\* ApplyMasquerade46 without the early return on a failed primary add
ApplyMasquerade46NoEarlyReturn(l, interface, add) ==
    UNION { {[log |-> r2.log, ret |-> r1.ret /\ r2.ret] :
                r2 \in ApplyMasquerade(r1.log, kIp6TablesPath, interface, add)}
          : r1 \in ApplyMasquerade(l, kIpTablesPath, interface, add) }

ApplyMasquerade46(l, interface, add) ==
    UNION { IF ~r1.ret /\ add THEN {[log |-> r1.log, ret |-> FALSE]}
            ELSE {[log |-> r2.log, ret |-> r1.ret /\ r2.ret] :
                    r2 \in ApplyMasquerade(r1.log, kIp6TablesPath, interface, add)}
          : r1 \in ApplyMasquerade(l, kIpTablesPath, interface, add) }

\* ApplyMarkForUserTraffic46 with the secondary subsystem served first
ApplyMarkForUserTraffic46SecondaryFirst(l, username, add) ==
    UNION { IF ~r1.ret /\ add THEN {[log |-> r1.log, ret |-> FALSE]}
            ELSE {[log |-> r2.log, ret |-> r1.ret /\ r2.ret] :
                     r2 \in ApplyMarkForUserTraffic(r1.log, kIpTablesPath, username, add)}
          : r1 \in ApplyMarkForUserTraffic(l, kIp6TablesPath, username, add) }

\* ApplyMarkForUserTraffic46 that returns after a failed primary command
\* in either direction
ApplyMarkForUserTraffic46StopsOnFailure(l, username, add) ==
    UNION { IF ~r1.ret THEN {[log |-> r1.log, ret |-> FALSE]}
            ELSE {[log |-> r2.log, ret |-> r1.ret /\ r2.ret] :
                     r2 \in ApplyMarkForUserTraffic(r1.log, kIp6TablesPath, username, add)}
          : r1 \in ApplyMarkForUserTraffic(l, kIpTablesPath, username, add) }

ApplyMarkForUserTraffic46(l, username, add) ==
    UNION { IF ~r1.ret /\ add THEN {[log |-> r1.log, ret |-> FALSE]}
            ELSE {[log |-> r2.log, ret |-> r1.ret /\ r2.ret] :
                    r2 \in ApplyMarkForUserTraffic(r1.log, kIp6TablesPath, username, add)}
          : r1 \in ApplyMarkForUserTraffic(l, kIpTablesPath, username, add) }

RECURSIVE ApplyVpnSetup(_, _, _, _)
RECURSIVE MarkEach(_, _, _, _, _, _)

\* `ApplyVpnSetup(added_usernames, interface, false); return false;`
\* Rollback that returns what the removal call returned
RollbackReturnsResult(l, added_usernames, interface) ==
    ApplyVpnSetup(l, added_usernames, interface, FALSE)

Rollback(l, added_usernames, interface) ==
    {[log |-> rb.log, ret |-> FALSE] :
        rb \in ApplyVpnSetup(l, added_usernames, interface, FALSE)}

\* the loop over usernames: `todo` is what is left of the vector
\* MarkEach that goes on with the next username after a rollback
MarkEachGoesOnAfterRollback(l, todo, added_usernames, interface, add, return_value) ==
    IF todo = <<>> THEN {[log |-> l, ret |-> return_value]}
    ELSE UNION { IF ~r.ret /\ add
                 THEN UNION { MarkEach(rb.log, Tail(todo), added_usernames,
                                       interface, add, FALSE)
                            : rb \in Rollback(r.log, added_usernames, interface) }
                 ELSE MarkEach(r.log, Tail(todo),
                               IF add THEN Append(added_usernames, Head(todo))
                                      ELSE added_usernames,
                               interface, add, return_value /\ r.ret)
               : r \in ApplyMarkForUserTraffic46(l, Head(todo), add) }

\* MarkEach with a rollback that forgets the usernames already added
MarkEachForgetsAdded(l, todo, added_usernames, interface, add, return_value) ==
    IF todo = <<>> THEN {[log |-> l, ret |-> return_value]}
    ELSE UNION { IF ~r.ret /\ add
                 THEN Rollback(r.log, <<>>, interface)
                 ELSE MarkEach(r.log, Tail(todo),
                               IF add THEN Append(added_usernames, Head(todo))
                                      ELSE added_usernames,
                               interface, add, return_value /\ r.ret)
               : r \in ApplyMarkForUserTraffic46(l, Head(todo), add) }

\* MarkEach with the username recorded before its installation is tested
MarkEachAddsFirst(l, todo, added_usernames, interface, add, return_value) ==
    IF todo = <<>> THEN {[log |-> l, ret |-> return_value]}
    ELSE UNION { IF ~r.ret /\ add
                 THEN Rollback(r.log, Append(added_usernames, Head(todo)), interface)
                 ELSE MarkEach(r.log, Tail(todo),
                               IF add THEN Append(added_usernames, Head(todo))
                                      ELSE added_usernames,
                               interface, add, return_value /\ r.ret)
               : r \in ApplyMarkForUserTraffic46(l, Head(todo), add) }

MarkEach(l, todo, added_usernames, interface, add, return_value) ==
    IF todo = <<>> THEN {[log |-> l, ret |-> return_value]}
    ELSE UNION { IF ~r.ret /\ add THEN Rollback(r.log, added_usernames, interface)
                 ELSE MarkEach(r.log, Tail(todo),
                               IF add THEN Append(added_usernames, Head(todo))
                                      ELSE added_usernames,
                               interface, add, return_value /\ r.ret)
               : r \in ApplyMarkForUserTraffic46(l, Head(todo), add) }

\* ApplyVpnSetup that stops at a failed IPv4 routing step in either direction
ApplyVpnSetupStopsOnFailure(l, usernames, interface, add) ==
    UNION { IF ~r1.ret THEN {[log |-> r1.log, ret |-> FALSE]}
            ELSE UNION { IF ~r2.ret /\ add
                         THEN Rollback(r2.log, <<>>, interface)
                         ELSE UNION { IF ~r3.ret /\ add
                                      THEN Rollback(r3.log, <<>>, interface)
                                      ELSE MarkEach(r3.log, usernames, <<>>, interface,
                                                    add, r1.ret /\ r2.ret /\ r3.ret)
                                    : r3 \in ApplyMasquerade46(r2.log, interface, add) }
                       : r2 \in ApplyRuleForUserTraffic(r1.log, kIPv6, add) }
          : r1 \in ApplyRuleForUserTraffic(l, kIPv4, add) }

\* ApplyVpnSetup that rolls back after a failed IPv4 routing-policy add
ApplyVpnSetupRollsBackFirst(l, usernames, interface, add) ==
    UNION { IF ~r1.ret /\ add THEN Rollback(r1.log, <<>>, interface)
            ELSE UNION { IF ~r2.ret /\ add
                         THEN Rollback(r2.log, <<>>, interface)
                         ELSE UNION { IF ~r3.ret /\ add
                                      THEN Rollback(r3.log, <<>>, interface)
                                      ELSE MarkEach(r3.log, usernames, <<>>, interface,
                                                    add, r1.ret /\ r2.ret /\ r3.ret)
                                    : r3 \in ApplyMasquerade46(r2.log, interface, add) }
                       : r2 \in ApplyRuleForUserTraffic(r1.log, kIPv6, add) }
          : r1 \in ApplyRuleForUserTraffic(l, kIPv4, add) }

\* ApplyVpnSetup that returns without rollback after a failed IPv6 routing add
ApplyVpnSetupNoRollbackV6(l, usernames, interface, add) ==
    UNION { IF ~r1.ret /\ add THEN {[log |-> r1.log, ret |-> FALSE]}
            ELSE UNION { IF ~r2.ret /\ add
                         THEN {[log |-> r2.log, ret |-> FALSE]}
                         ELSE UNION { IF ~r3.ret /\ add
                                      THEN Rollback(r3.log, <<>>, interface)
                                      ELSE MarkEach(r3.log, usernames, <<>>, interface,
                                                    add, r1.ret /\ r2.ret /\ r3.ret)
                                    : r3 \in ApplyMasquerade46(r2.log, interface, add) }
                       : r2 \in ApplyRuleForUserTraffic(r1.log, kIPv6, add) }
          : r1 \in ApplyRuleForUserTraffic(l, kIPv4, add) }

ApplyVpnSetup(l, usernames, interface, add) ==
    UNION { IF ~r1.ret /\ add THEN {[log |-> r1.log, ret |-> FALSE]}
            ELSE UNION {
                IF ~r2.ret /\ add THEN Rollback(r2.log, <<>>, interface)
                ELSE UNION {
                    IF ~r3.ret /\ add THEN Rollback(r3.log, <<>>, interface)
                    ELSE MarkEach(r3.log, usernames, <<>>, interface, add,
                                  r1.ret /\ r2.ret /\ r3.ret)
                  : r3 \in ApplyMasquerade46(r2.log, interface, add) }
              : r2 \in ApplyRuleForUserTraffic(r1.log, kIPv6, add) }
          : r1 \in ApplyRuleForUserTraffic(l, kIPv4, add) }

(***************************************************************************)
(* Calls on the object                                                     *)
(***************************************************************************)
\* the members and the environment after a call that returned r = [s, ret]
Commit(r) ==
    /\ tcp_holes_' = r.s.tcp
    /\ udp_holes_' = r.s.udp
    /\ ip6_enabled_' = r.s.ip6
    /\ installed4' = r.s.r4
    /\ installed6' = r.s.r6
    /\ log' = r.s.log
    /\ ret' = r.ret

HoleCall(op, port, interface) == [op |-> op, port |-> port, interface |-> interface]

PunchTcpHole(in_port, in_interface, o) ==
    /\ phase = "alive"
    /\ Commit(PunchHole(Cur, in_port, in_interface, "tcp", kProtocolTcp, o))
    /\ call' = HoleCall("PunchTcpHole", in_port, in_interface)
    /\ UNCHANGED phase

PunchUdpHole(in_port, in_interface, o) ==
    /\ phase = "alive"
    /\ Commit(PunchHole(Cur, in_port, in_interface, "udp", kProtocolUdp, o))
    /\ call' = HoleCall("PunchUdpHole", in_port, in_interface)
    /\ UNCHANGED phase

PlugTcpHole(in_port, in_interface, o) ==
    /\ phase = "alive"
    /\ Commit(PlugHole(Cur, in_port, in_interface, "tcp", kProtocolTcp, o))
    /\ call' = HoleCall("PlugTcpHole", in_port, in_interface)
    /\ UNCHANGED phase

\* PlugUdpHole handed the TCP set
PlugUdpHoleOnTcpSet(in_port, in_interface, o) ==
    /\ phase = "alive"
    /\ Commit(PlugHole(Cur, in_port, in_interface, "tcp", kProtocolUdp, o))
    /\ call' = HoleCall("PlugUdpHole", in_port, in_interface)
    /\ UNCHANGED phase

PlugUdpHole(in_port, in_interface, o) ==
    /\ phase = "alive"
    /\ Commit(PlugHole(Cur, in_port, in_interface, "udp", kProtocolUdp, o))
    /\ call' = HoleCall("PlugUdpHole", in_port, in_interface)
    /\ UNCHANGED phase

\* the holes a PlugAllHoles started now would try to plug
Tracked == ({kProtocolTcp} \X tcp_holes_) \cup ({kProtocolUdp} \X udp_holes_)

\* A call of PlugAllHoles: it returns (ret is TRUE) or a CHECK aborts the process.
CallPlugAllHoles(fail4, fail6) ==
    /\ phase = "alive"
    /\ LET r == PlugAllHoles(Cur, fail4, fail6)
       IN  /\ Commit(r)
           /\ phase' = IF r.ret THEN "alive" ELSE "aborted"
    /\ call' = [op |-> "PlugAllHoles"]

\* ~IpTables
Destructor(fail4, fail6) ==
    /\ phase = "alive"
    /\ LET r == PlugAllHoles(Cur, fail4, fail6)
       IN  /\ Commit(r)
           /\ phase' = IF r.ret THEN "destroyed" ELSE "aborted"
    /\ call' = [op |-> "~IpTables"]

(***************************************************************************)
(* Inputs                                                                  *)
(***************************************************************************)
Iface == <<"i", "f", "a", "c", "e">>
WithSpaces == <<"w", "i", "t", "h", " ", "s", "p", "a", "c", "e", "s">>
Ifc0 == <<"i", "f", "c", "0">>

Interfaces == {Iface, WithSpaces}
OnePortTcp == {0, 80}
TwoPortsTcp == {0, 53, 80}
OnePortUdp == {0, 53}
UsernameVectors == {<<>>, <<"testuser0">>}
VpnInterfaces == {Ifc0}

RECURSIVE SeqsUpTo(_, _)
SeqsUpTo(S, n) ==
    IF n = 0 THEN {<<>>}
    ELSE LET shorter == SeqsUpTo(S, n - 1)
         IN  shorter \cup {Append(q, x) : q \in {p \in shorter : Len(p) = n - 1}, x \in S}

\* the username vectors of a VPN call made on a fresh object
MaxUsers == 2
VpnUsers == {"testuser0", "testuser1"}
AllUsernameVectors == SeqsUpTo(VpnUsers, MaxUsers)

\* ApplyVpnSetup depends on no state: its runs from an empty log, per input
VpnRuns ==
    [usernames \in AllUsernameVectors, interface \in VpnInterfaces, add \in BOOLEAN |->
        ApplyVpnSetup(<<>>, usernames, interface, add)]

VpnCall(op, usernames, interface) ==
    [op |-> op, usernames |-> usernames, interface |-> interface]

\* RequestVpnSetup that takes a successful setup for proof that the
\* secondary tool works
RequestVpnSetupSetsFlag(usernames, interface) ==
    /\ phase = "alive"
    /\ \E r \in VpnRuns[usernames, interface, TRUE] :
           /\ log' = r.log
           /\ ret' = r.ret
           /\ ip6_enabled_' = (ip6_enabled_ \/ r.ret)
    /\ call' = VpnCall("RequestVpnSetup", usernames, interface)
    /\ UNCHANGED <<tcp_holes_, udp_holes_, installed4, installed6, phase>>

RequestVpnSetup(usernames, interface) ==
    /\ phase = "alive"
    /\ \E r \in VpnRuns[usernames, interface, TRUE] :
           /\ log' = r.log
           /\ ret' = r.ret
    /\ call' = VpnCall("RequestVpnSetup", usernames, interface)
    /\ UNCHANGED <<tcp_holes_, udp_holes_, ip6_enabled_, installed4, installed6, phase>>

RemoveVpnSetup(usernames, interface) ==
    /\ phase = "alive"
    /\ \E r \in VpnRuns[usernames, interface, FALSE] :
           /\ log' = r.log
           /\ ret' = r.ret
    /\ call' = VpnCall("RemoveVpnSetup", usernames, interface)
    /\ UNCHANGED <<tcp_holes_, udp_holes_, ip6_enabled_, installed4, installed6, phase>>

(***************************************************************************)
(* The object after construction: no hole, and ip6_enabled_ as the         *)
(* platform sets it (false under __ANDROID__, else the member's default,   *)
(* which the unit tests observe to be true).                               *)
(***************************************************************************)
Init ==
    /\ tcp_holes_ = {}
    /\ udp_holes_ = {}
    /\ ip6_enabled_ \in BOOLEAN
    /\ installed4 = {}
    /\ installed6 = {}
    /\ phase = "alive"
    /\ call = [op |-> "IpTables"]
    /\ ret = TRUE
    /\ log = <<>>

HoleNext(tcp_ports, udp_ports, interfaces) ==
    \/ \E p \in tcp_ports, i \in interfaces, o \in PunchOutcomes : PunchTcpHole(p, i, o)
    \/ \E p \in udp_ports, i \in interfaces, o \in PunchOutcomes : PunchUdpHole(p, i, o)
    \/ \E p \in tcp_ports, i \in interfaces, o \in PlugOutcomes : PlugTcpHole(p, i, o)
    \/ \E p \in udp_ports, i \in interfaces, o \in PlugOutcomes : PlugUdpHole(p, i, o)
    \/ \E fail4 \in SUBSET Tracked, fail6 \in SUBSET Tracked : CallPlugAllHoles(fail4, fail6)
    \/ \E fail4 \in SUBSET Tracked, fail6 \in SUBSET Tracked : Destructor(fail4, fail6)

VpnNext ==
    \/ \E u \in UsernameVectors, i \in VpnInterfaces : RequestVpnSetup(u, i)
    \/ \E u \in UsernameVectors, i \in VpnInterfaces : RemoveVpnSetup(u, i)

\* Every operation, in any order: one port per protocol.
Next == HoleNext(OnePortTcp, OnePortUdp, Interfaces) \/ VpnNext

Spec == Init /\ [][Next]_vars

\* The hole operations alone: up to two TCP holes and one UDP hole.
NextHoles == HoleNext(TwoPortsTcp, OnePortUdp, Interfaces)

SpecHoles == Init /\ [][NextHoles]_vars

(***************************************************************************)
(* VPN setup alone: one RequestVpnSetup or RemoveVpnSetup per behaviour,   *)
(* on a fresh object, with a vector of at most MaxUsers usernames.         *)
(***************************************************************************)
InitVpn ==
    /\ tcp_holes_ = {}
    /\ udp_holes_ = {}
    /\ ip6_enabled_ \in BOOLEAN
    /\ installed4 = {}
    /\ installed6 = {}
    /\ phase = "alive"
    /\ call \in {[op |-> "IpTables", usernames |-> u, interface |-> i] :
                    u \in AllUsernameVectors, i \in VpnInterfaces}
    /\ ret = TRUE
    /\ log = <<>>

\* the first call on the object, with the arguments drawn
NextVpn ==
    /\ call.op = "IpTables"
    /\ \/ RequestVpnSetup(call.usernames, call.interface)
       \/ RemoveVpnSetup(call.usernames, call.interface)

SpecVpn == InitVpn /\ [][NextVpn]_vars

(***************************************************************************)
(* The hole operations in an environment where every command succeeds:     *)
(* ports 53 and 80 (and the invalid 0), two valid interface names.          *)
(***************************************************************************)
AllSucceed == [a4 |-> TRUE, a6 |-> TRUE, d4 |-> TRUE, d6 |-> TRUE]
PortsOk == {0, 53, 80}
InterfacesOk == {Iface, Ifc0, WithSpaces}

NextOk ==
    \/ \E p \in PortsOk, i \in InterfacesOk : PunchTcpHole(p, i, AllSucceed)
    \/ \E p \in PortsOk, i \in InterfacesOk : PunchUdpHole(p, i, AllSucceed)
    \/ \E p \in PortsOk, i \in InterfacesOk : PlugTcpHole(p, i, AllSucceed)
    \/ \E p \in PortsOk, i \in InterfacesOk : PlugUdpHole(p, i, AllSucceed)
    \/ CallPlugAllHoles({}, {})
    \/ Destructor({}, {})

SpecOk == Init /\ [][NextOk]_vars

(***************************************************************************)
(* Interface names. One punch of a fresh object per behaviour, the name    *)
(* drawn from: every string of at most MaxShort characters over Alphabet,  *)
(* strings of kInterfaceNameSize - 2 .. kInterfaceNameSize + 1 characters  *)
(* with any first and last character, and the names of the unit tests.     *)
(***************************************************************************)
MaxShort == 3

Alphabet == {"a", "Z", "7", "-", ".", " ", "$"}

Repeat(c, n) == [k \in 1..n |-> c]

ShortNames == SeqsUpTo(Alphabet, MaxShort)

LongNames ==
    {<<c1>> \o Repeat("a", n - 2) \o <<c2>> :
        c1 \in Alphabet, c2 \in Alphabet,
        n \in (kInterfaceNameSize - 2)..(kInterfaceNameSize + 1)}

TestNames ==
    { <<"s", "h", "o", "r", "t", "n", "a", "m", "e">>,
      <<"m", "i", "d", "d", "l", "e", "-", "d", "a", "s", "h">>,
      <<"m", "i", "d", "d", "l", "e", ".", "d", "o", "t">>,
      <<"r", "e", "a", "l", "l", "y", "l", "o", "n", "g", "i", "n", "t", "e", "r", "f",
        "a", "c", "e", "n", "a", "m", "e">>,
      WithSpaces,
      <<"w", "i", "t", "h", "$", "y", "m", "b", "o", "l", "s">>,
      <<"-", "s", "t", "a", "r", "t", "d", "a", "s", "h">>,
      <<"e", "n", "d", "d", "a", "s", "h", "-">>,
      <<".", "s", "t", "a", "r", "t", "d", "o", "t">>,
      <<"e", "n", "d", "d", "o", "t", ".">> }

Names == ShortNames \cup LongNames \cup TestNames

InitName ==
    /\ tcp_holes_ = {}
    /\ udp_holes_ = {}
    /\ ip6_enabled_ \in BOOLEAN
    /\ installed4 = {}
    /\ installed6 = {}
    /\ phase = "alive"
    /\ call \in {[op |-> "IpTables", port |-> p, interface |-> n] : p \in OnePortTcp \ {0}, n \in Names}
    /\ ret = TRUE
    /\ log = <<>>

\* the first call on the object, with the arguments drawn
NextName ==
    /\ call.op = "IpTables"
    /\ \/ \E o \in PunchOutcomes : PunchTcpHole(call.port, call.interface, o)
       \/ \E o \in PunchOutcomes : PunchUdpHole(call.port, call.interface, o)

SpecName == InitName /\ [][NextName]_vars

(***************************************************************************)
(* Vocabulary of the properties                                            *)
(***************************************************************************)
PunchOps == {"PunchTcpHole", "PunchUdpHole"}
PlugOps == {"PlugTcpHole", "PlugUdpHole"}

\* the hole set and the protocol a hole call works on
HolesOf(op) == IF op \in {"PunchTcpHole", "PlugTcpHole"} THEN tcp_holes_ ELSE udp_holes_
HolesOfAfter(op) == IF op \in {"PunchTcpHole", "PlugTcpHole"} THEN tcp_holes_' ELSE udp_holes_'
ProtocolOf(op) == IF op \in {"PunchTcpHole", "PlugTcpHole"} THEN kProtocolTcp ELSE kProtocolUdp

IsAccept(c, op, path) == c.cmd = op /\ c.path = path
AllOk(l) == \A k \in 1..Len(l) : l[k].ok

\* The rule of the specification for interface names.
NameRule(name) ==
    /\ Len(name) < 16
    /\ \A k \in 1..Len(name) : IsAlnum(name[k]) \/ name[k] \in {"-", "."}
    /\ name # <<>> => /\ name[1] \notin {"-", "."}
                      /\ name[Len(name)] \notin {"-", "."}

(***************************************************************************)
(* C1. Every hole held in the TCP or UDP hole set has its accept rule      *)
(* installed in the primary tool and, whenever ip6_enabled_ is true, in    *)
(* the secondary tool too.                                                 *)
(***************************************************************************)
RulesOfHoles(holes, protocol) == {AcceptRule(protocol, h[1], h[2]) : h \in holes}

C1_TrackedHolesAreInstalled ==
    LET tracked == RulesOfHoles(tcp_holes_, kProtocolTcp)
                       \cup RulesOfHoles(udp_holes_, kProtocolUdp)
    IN  /\ tracked \subseteq installed4
        /\ ip6_enabled_ => tracked \subseteq installed6

(***************************************************************************)
(* C2. A punch of a pair already tracked for its protocol returns success, *)
(* issues no command and leaves the hole sets and ip6_enabled_ unchanged;  *)
(* so a punch repeated right after a successful identical punch succeeds   *)
(* and issues no command.                                                  *)
(***************************************************************************)
C2_Step ==
    /\ (/\ call'.op \in PunchOps
        /\ Hole(call'.port, call'.interface) \in HolesOf(call'.op))
       => /\ ret' = TRUE
          /\ log' = <<>>
          /\ UNCHANGED <<tcp_holes_, udp_holes_, ip6_enabled_>>
    /\ (call.op \in PunchOps /\ ret = TRUE /\ call' = call)
       => /\ ret' = TRUE
          /\ log' = <<>>

C2_PunchIsIdempotent == [][C2_Step]_vars

\* a punch of a tracked pair has been made, after a punch that installed rules
C2_Witness ==
    /\ call.op = "PunchTcpHole"
    /\ Hole(call.port, call.interface) \in tcp_holes_
    /\ ret = TRUE
    /\ log = <<>>

(***************************************************************************)
(* C3. A plug of a pair not tracked for its protocol returns failure,      *)
(* issues no command and changes nothing; a plug of a tracked pair whose   *)
(* commands all succeed returns success and untracks it; so a plug         *)
(* repeated right after a successful identical plug fails.                 *)
(***************************************************************************)
C3_Step ==
    /\ (/\ call'.op \in PlugOps
        /\ Hole(call'.port, call'.interface) \notin HolesOf(call'.op))
       => /\ ret' = FALSE
          /\ log' = <<>>
          /\ UNCHANGED <<tcp_holes_, udp_holes_, ip6_enabled_, installed4, installed6>>
    /\ (/\ call'.op \in PlugOps
        /\ Hole(call'.port, call'.interface) \in HolesOf(call'.op)
        /\ AllOk(log'))
       => /\ ret' = TRUE
          /\ Hole(call'.port, call'.interface) \notin HolesOfAfter(call'.op)
    /\ (call.op \in PlugOps /\ ret = TRUE /\ call' = call)
       => /\ ret' = FALSE
          /\ log' = <<>>

C3_PlugIsNotIdempotent == [][C3_Step]_vars

\* a plug of an untracked pair has been made while the other protocol tracks it
C3_Witness ==
    /\ call.op = "PlugUdpHole"
    /\ call.port # 0
    /\ Hole(call.port, call.interface) \notin udp_holes_
    /\ Hole(call.port, call.interface) \in tcp_holes_
    /\ ret = FALSE
    /\ log = <<>>

(***************************************************************************)
(* C4. Whenever a punch or a plug returns failure, both hole sets are what *)
(* they were before the call.                                              *)
(***************************************************************************)
C4_Step ==
    (call'.op \in PunchOps \cup PlugOps /\ ret' = FALSE)
       => UNCHANGED <<tcp_holes_, udp_holes_>>

C4_FailureLeavesRegistry == [][C4_Step]_vars

\* a plug failed on an external command and its pair is still tracked
C4_Witness ==
    /\ call.op = "PlugTcpHole"
    /\ ret = FALSE
    /\ log # <<>>
    /\ ~AllOk(log)
    /\ Hole(call.port, call.interface) \in tcp_holes_

(***************************************************************************)
(* C5. A punch whose primary add succeeds and whose secondary add fails    *)
(* while ip6_enabled_ is false returns success and records the hole; it    *)
(* issues no delete, and ip6_enabled_ is still false afterwards.           *)
(***************************************************************************)
\* the step is a punch whose first two commands are a primary add that
\* succeeded and a secondary add that failed
SecondaryAddFailed ==
    /\ call'.op \in PunchOps
    /\ Len(log') >= 2
    /\ IsAccept(log'[1], "AddAccept", kIpTablesPath) /\ log'[1].ok
    /\ IsAccept(log'[2], "AddAccept", kIp6TablesPath) /\ ~log'[2].ok

C5_Step ==
    (SecondaryAddFailed /\ ~ip6_enabled_)
       => /\ ret' = TRUE
          /\ HolesOfAfter(call'.op) = HolesOf(call'.op) \cup {Hole(call'.port, call'.interface)}
          /\ Len(log') = 2
          /\ ip6_enabled_' = FALSE

C5_SecondaryFailureTolerated == [][C5_Step]_vars

\* such a punch has been made: two adds, the second failed, the hole is tracked
C5_Witness ==
    /\ call.op \in PunchOps
    /\ Len(log) = 2
    /\ log[1].ok /\ ~log[2].ok
    /\ ret = TRUE
    /\ ~ip6_enabled_
    /\ Hole(call.port, call.interface) \in HolesOf(call.op)

(***************************************************************************)
(* C6. A punch whose primary add succeeds and whose secondary add fails    *)
(* while ip6_enabled_ is true issues exactly one delete, on the primary    *)
(* tool, for the same protocol, port and interface, returns failure and    *)
(* does not record the hole.                                               *)
(***************************************************************************)
C6_Step ==
    (SecondaryAddFailed /\ ip6_enabled_)
       => /\ Len(log') = 3
          /\ IsAccept(log'[3], "DeleteAccept", kIpTablesPath)
          /\ log'[3].protocol = ProtocolOf(call'.op)
          /\ log'[3].port = call'.port
          /\ log'[3].interface = call'.interface
          /\ ret' = FALSE
          /\ Hole(call'.port, call'.interface) \notin HolesOfAfter(call'.op)
          /\ UNCHANGED <<tcp_holes_, udp_holes_>>

C6_SecondaryFailureRolledBack == [][C6_Step]_vars

\* such a punch has been made on an object whose flag was true from construction
C6_Witness ==
    /\ call.op \in PunchOps
    /\ Len(log) = 3
    /\ log[1].ok /\ ~log[2].ok
    /\ log[3].cmd = "DeleteAccept"
    /\ ret = FALSE
    /\ installed6 = {}

(***************************************************************************)
(* C7. ip6_enabled_ never goes from true to false, and it is true after a  *)
(* call exactly when it was true before or the call issued a secondary add *)
(* that succeeded.                                                         *)
(***************************************************************************)
SecondaryAddSucceeded(l) ==
    \E k \in 1..Len(l) : l[k].cmd = "AddAccept" /\ l[k].path = kIp6TablesPath /\ l[k].ok

C7_Step ==
    /\ ip6_enabled_ => ip6_enabled_'
    /\ ip6_enabled_' <=> (ip6_enabled_ \/ SecondaryAddSucceeded(log'))

C7_FlagIsMonotonic == [][C7_Step]_vars

\* the flag is true after a punch whose secondary add failed
C7_Witness ==
    /\ ip6_enabled_
    /\ call.op \in PunchOps
    /\ Len(log) >= 2
    /\ log[2].cmd = "AddAccept" /\ ~log[2].ok

(***************************************************************************)
(* C8. PlugAllHoles (also as run by the destructor) attempts one plug for  *)
(* every hole of the TCP set and then for every hole of the UDP set; if it *)
(* returns, both sets are empty; if any of the plugs fails, a hole stays   *)
(* tracked and the process aborts.                                         *)
(***************************************************************************)
IsPrimaryDelete(c) == c.cmd = "DeleteAccept" /\ c.path = kIpTablesPath

C8_Step ==
    call'.op \in {"PlugAllHoles", "~IpTables"} =>
        LET plugs == SelectSeq(log', IsPrimaryDelete)
            n == Cardinality(tcp_holes_)
        IN  /\ \A k \in 1..Len(log') : log'[k].cmd = "DeleteAccept"
            /\ Len(plugs) = n + Cardinality(udp_holes_)
            /\ \A k \in 1..Len(plugs) :
                   plugs[k].protocol = IF k <= n THEN kProtocolTcp ELSE kProtocolUdp
            /\ {Hole(plugs[k].port, plugs[k].interface) : k \in 1..n} = tcp_holes_
            /\ {Hole(plugs[k].port, plugs[k].interface) : k \in (n + 1)..Len(plugs)}
                   = udp_holes_
            /\ phase' # "aborted" => /\ tcp_holes_' = {} /\ udp_holes_' = {}
                                     /\ ret' = TRUE
                                     /\ phase' = IF call'.op = "~IpTables"
                                                 THEN "destroyed" ELSE "alive"
            /\ phase' = "aborted" <=> ~AllOk(log')
            /\ phase' = "aborted" <=> (tcp_holes_' \cup udp_holes_') # {}

C8_PlugAllHolesEmptiesOrAborts == [][C8_Step]_vars

\* the first TCP plug failed, the later plugs were still attempted and succeeded,
\* and the process aborted with one hole tracked
C8_Witness ==
    /\ call.op = "PlugAllHoles"
    /\ phase = "aborted"
    /\ Len(SelectSeq(log, IsPrimaryDelete)) = 3
    /\ ~log[1].ok
    /\ Cardinality(tcp_holes_) = 1
    /\ udp_holes_ = {}

(***************************************************************************)
(* C9. A punch with port 0 or with an interface name that breaks the name  *)
(* rule, and a plug with port 0, return failure, issue no command and      *)
(* leave the hole sets, ip6_enabled_ and the installed rules unchanged.    *)
(***************************************************************************)
C9_Step ==
    (\/ call'.op \in PunchOps /\ (call'.port = 0 \/ ~NameRule(call'.interface))
     \/ call'.op \in PlugOps /\ call'.port = 0)
       => /\ ret' = FALSE
          /\ log' = <<>>
          /\ UNCHANGED <<tcp_holes_, udp_holes_, ip6_enabled_, installed4, installed6>>

C9_ValidationFailsWithoutEffect == [][C9_Step]_vars

\* a punch with port 0 and a valid name has been made while a hole is tracked
C9_Witness ==
    /\ call.op = "PunchTcpHole"
    /\ call.port = 0
    /\ call.interface = Iface
    /\ tcp_holes_ # {}
    /\ ret = FALSE
    /\ log = <<>>

(***************************************************************************)
(* C10. A punch of an untracked pair with a non-zero port goes on to rule  *)
(* installation (issues a command) if and only if the interface name has   *)
(* fewer than 16 characters, all of them alphanumeric, '-' or '.', and     *)
(* neither starts nor ends with '-' or '.'.                                *)
(***************************************************************************)
C10_Step ==
    (/\ call'.op \in PunchOps
     /\ call'.port # 0
     /\ Hole(call'.port, call'.interface) \notin HolesOf(call'.op))
       => (log' # <<>> <=> NameRule(call'.interface))

C10_NameValidation == [][C10_Step]_vars

\* a name of 15 characters went on to rule installation
C10_Witness ==
    /\ call.op = "PunchTcpHole"
    /\ Len(call.interface) = 15
    /\ log # <<>>

(***************************************************************************)
(* Vocabulary of the VPN properties: the commands of log by direction, and *)
(* the rule each command installs or removes.                              *)
(***************************************************************************)
IsAdd(c) == c.add
IsRemoval(c) == ~c.add
Adds(l) == SelectSeq(l, IsAdd)
Removals(l) == SelectSeq(l, IsRemoval)

RuleOf(c) == [c EXCEPT !.add = TRUE, !.ok = TRUE]
RulesOf(l) == [k \in 1..Len(l) |-> RuleOf(l[k])]

RoutingRule(ip_version) ==
    [cmd |-> "RuleForUserTraffic", version |-> ip_version, add |-> TRUE, ok |-> TRUE]
MasqueradeRule(path, interface) ==
    [cmd |-> "Masquerade", path |-> path, interface |-> interface,
     add |-> TRUE, ok |-> TRUE]
MarkRule(path, user_name) ==
    [cmd |-> "MarkForUserTraffic", path |-> path, user |-> user_name,
     add |-> TRUE, ok |-> TRUE]

\* the mark rules of a vector of usernames, element by element
RECURSIVE MarkRules(_)
MarkRules(usernames) ==
    IF usernames = <<>> THEN <<>>
    ELSE <<MarkRule(kIpTablesPath, Head(usernames)),
           MarkRule(kIp6TablesPath, Head(usernames))>> \o MarkRules(Tail(usernames))

\* both routing-policy rules, the masquerade rule per subsystem, the marks
SetupRules(usernames, interface) ==
    <<RoutingRule(kIPv4), RoutingRule(kIPv6),
      MasqueradeRule(kIpTablesPath, interface),
      MasqueradeRule(kIp6TablesPath, interface)>> \o MarkRules(usernames)

(***************************************************************************)
(* C11. After RequestVpnSetup returned failure with every removal command  *)
(* of its rollback successful, every rule a successful add command of the  *)
(* call installed has been removed by a later successful removal command:  *)
(* no routing-policy, masquerade or mark rule of the call stays installed. *)
(***************************************************************************)
C11_FailedAddLeavesNothing ==
    (/\ call.op = "RequestVpnSetup"
     /\ ~ret
     /\ AllOk(Removals(log)))
       => \A k \in 1..Len(log) :
              (log[k].add /\ log[k].ok)
                  => \E j \in (k + 1)..Len(log) :
                         /\ ~log[j].add
                         /\ log[j].ok
                         /\ RuleOf(log[j]) = RuleOf(log[k])

(***************************************************************************)
(* C12. When the mark installation of the username at position k is the    *)
(* first add step of RequestVpnSetup to fail, the mark removals of the     *)
(* rollback are those of the usernames at positions 1..k-1, each on the    *)
(* primary then the secondary subsystem, and no other: none for position   *)
(* k; the mark installations reach position k and no later one; the call   *)
(* returns failure.                                                        *)
(***************************************************************************)
IsMark(c) == c.cmd = "MarkForUserTraffic"
IsPrefix(s, q) == Len(s) <= Len(q) /\ s = SubSeq(q, 1, Len(s))

\* the mark installation at position k failed, every earlier add succeeded
MarkFailedAt(k) ==
    /\ call.op = "RequestVpnSetup"
    /\ LET a == Adds(log)
       IN  /\ a # <<>>
           /\ IsMark(a[Len(a)])
           /\ ~a[Len(a)].ok
           /\ AllOk(SubSeq(a, 1, Len(a) - 1))
           /\ k = Cardinality({i \in 1..Len(a) :
                                 IsMark(a[i]) /\ a[i].path = kIpTablesPath})

C12_RollbackCoversAddedUsernames ==
    \A k \in 1..MaxUsers :
        MarkFailedAt(k)
            => /\ RulesOf(SelectSeq(Removals(log), IsMark))
                      = MarkRules(SubSeq(call.usernames, 1, k - 1))
               /\ IsPrefix(RulesOf(SelectSeq(Adds(log), IsMark)),
                           MarkRules(SubSeq(call.usernames, 1, k)))
               /\ log = Adds(log) \o Removals(log)
               /\ ret = FALSE

\* the second of two distinct usernames failed on the secondary subsystem
C12_Witness ==
    /\ MarkFailedAt(2)
    /\ call.usernames = <<"testuser0", "testuser1">>
    /\ Len(Adds(log)) = 8
    /\ Len(SelectSeq(Removals(log), IsMark)) = 2
    /\ ret = FALSE

(***************************************************************************)
(* C13. When the mark installation of the second username fails, the       *)
(* removal commands of the rollback come in the order of a removal call:   *)
(* the IPv4 then the IPv6 routing-policy rule, the masquerade rule on the  *)
(* primary then the secondary subsystem, then the mark rules of the first  *)
(* username; every removal follows every add; the call returns failure.    *)
(***************************************************************************)
C13_RollbackInSetupOrder ==
    MarkFailedAt(2)
        => /\ RulesOf(Removals(log))
                  = SetupRules(<<call.usernames[1]>>, call.interface)
           /\ log = Adds(log) \o Removals(log)
           /\ ret = FALSE

\* The order as stated: the first username's mark rules, then the
\* masquerade rule, then both routing-policy rules.
StatedRank(c) ==
    IF IsMark(c) THEN 1 ELSE IF c.cmd = "Masquerade" THEN 2 ELSE 3

C13_RollbackInStatedOrder ==
    MarkFailedAt(2)
        => /\ LET r == Removals(log)
              IN  \A i, j \in 1..Len(r) :
                      i < j => StatedRank(r[i]) <= StatedRank(r[j])
           /\ ret = FALSE

\* the second username failed on the primary subsystem; six removals
C13_Witness ==
    /\ MarkFailedAt(2)
    /\ Len(Adds(log)) = 7
    /\ Len(Removals(log)) = 6
    /\ IsMark(log[Len(log)])

(***************************************************************************)
(* C14. RemoveVpnSetup issues removal commands only: one for the IPv4      *)
(* routing-policy rule, one for the IPv6 one, one masquerade removal per   *)
(* subsystem and one mark removal per subsystem for every element of the   *)
(* username vector, duplicates included, whatever fails on the way; it     *)
(* returns success exactly when every removal succeeded.                   *)
(***************************************************************************)
C14_RemoveIssuesEveryRemoval ==
    call.op = "RemoveVpnSetup"
        => /\ RulesOf(log) = SetupRules(call.usernames, call.interface)
           /\ Adds(log) = <<>>
           /\ ret = AllOk(log)

\* a vector with a duplicate, the first removal failed, the others ran
C14_Witness ==
    /\ call.op = "RemoveVpnSetup"
    /\ call.usernames = <<"testuser0", "testuser0">>
    /\ Len(log) = 8
    /\ ~log[1].ok
    /\ AllOk(Tail(log))
    /\ ret = FALSE

(***************************************************************************)
(* C15. RequestVpnSetup returns success exactly when every add step was    *)
(* carried out and succeeded; once an add command failed it returns        *)
(* failure whatever the removal commands of the rollback returned.         *)
(***************************************************************************)
C15_AddSucceedsIffEveryStepDid ==
    call.op = "RequestVpnSetup"
        => /\ ret = (/\ AllOk(Adds(log))
                     /\ RulesOf(Adds(log))
                            = SetupRules(call.usernames, call.interface))
           /\ ~AllOk(Adds(log)) => ret = FALSE

\* a failed add after which every removal of the rollback failed too
C15_Witness ==
    /\ call.op = "RequestVpnSetup"
    /\ ~AllOk(Adds(log))
    /\ Len(Removals(log)) = 6
    /\ \A k \in 1..Len(log) : ~log[k].add => ~log[k].ok
    /\ ret = FALSE

(***************************************************************************)
(* C16. When the IPv4 routing-policy add of RequestVpnSetup fails, that    *)
(* add is the only command of the call, and the call returns failure.      *)
(***************************************************************************)
C16_FirstStepFailureStopsAll ==
    (/\ call.op = "RequestVpnSetup"
     /\ log # <<>>
     /\ RuleOf(log[1]) = RoutingRule(kIPv4)
     /\ ~log[1].ok)
        => /\ Len(log) = 1
           /\ log[1].add
           /\ ret = FALSE

\* the IPv4 routing-policy add failed with usernames waiting
C16_Witness ==
    /\ call.op = "RequestVpnSetup"
    /\ Len(call.usernames) = 2
    /\ log = <<[RoutingRule(kIPv4) EXCEPT !.ok = FALSE]>>
    /\ ret = FALSE

(***************************************************************************)
(* C17. When the IPv4 routing-policy rule was installed and the IPv6       *)
(* routing-policy add fails, the rollback is a removal call with no        *)
(* username: it issues the removal of the IPv4 routing-policy rule, of the *)
(* IPv6 one and of the masquerade rule on either subsystem, in this order, *)
(* and no mark removal; no further add is issued; the call returns         *)
(* failure.                                                                *)
(***************************************************************************)
SecondStepFailed ==
    /\ call.op = "RequestVpnSetup"
    /\ Len(log) >= 2
    /\ log[1].ok
    /\ RuleOf(log[2]) = RoutingRule(kIPv6)
    /\ log[2].add
    /\ ~log[2].ok

C17_SecondStepFailureRollsBackAll ==
    SecondStepFailed
        => /\ RulesOf(Removals(log)) = SetupRules(<<>>, call.interface)
           /\ Len(Adds(log)) = 2
           /\ log = Adds(log) \o Removals(log)
           /\ ret = FALSE

\* As stated: the only removal is that of the IPv4 routing-policy rule.
C17_SecondStepFailureRemovesFirstOnly ==
    SecondStepFailed
        => /\ RulesOf(Removals(log)) = <<RoutingRule(kIPv4)>>
           /\ ret = FALSE

\* the IPv6 routing-policy add failed and four removals followed
C17_Witness ==
    /\ SecondStepFailed
    /\ Len(log) = 6
    /\ AllOk(Removals(log))
    /\ ret = FALSE

(***************************************************************************)
(* C18. When both routing-policy rules were installed and the primary      *)
(* masquerade add fails, the secondary masquerade add and every mark       *)
(* command are left out, and the rollback issues one removal each of the   *)
(* IPv4 routing-policy rule, the IPv6 one, the primary masquerade rule and *)
(* the secondary masquerade rule; the call returns failure.                *)
(***************************************************************************)
PrimaryMasqueradeFailed ==
    /\ call.op = "RequestVpnSetup"
    /\ Len(log) >= 3
    /\ log[1].ok
    /\ log[2].ok
    /\ RuleOf(log[3]) = MasqueradeRule(kIpTablesPath, call.interface)
    /\ log[3].add
    /\ ~log[3].ok

C18_PrimaryMasqueradeFailure ==
    PrimaryMasqueradeFailed
        => /\ Len(Adds(log)) = 3
           /\ \A k \in 1..Len(log) : ~IsMark(log[k])
           /\ RulesOf(Removals(log)) = SetupRules(<<>>, call.interface)
           /\ ret = FALSE

\* the primary masquerade add failed with usernames waiting
C18_Witness ==
    /\ PrimaryMasqueradeFailed
    /\ call.usernames = <<"testuser0", "testuser1">>
    /\ Len(log) = 7
    /\ ret = FALSE

(***************************************************************************)
(* C19. When every add command of RequestVpnSetup succeeds, the commands   *)
(* are adds only, in the order IPv4 routing-policy rule, IPv6 one,         *)
(* masquerade primary, masquerade secondary, then for each element of the  *)
(* username vector in order, duplicates included, the mark rule on the     *)
(* primary then the secondary subsystem; the call returns success.         *)
(***************************************************************************)
C19_SuccessfulAddOrder ==
    (call.op = "RequestVpnSetup" /\ AllOk(Adds(log)))
        => /\ RulesOf(log) = SetupRules(call.usernames, call.interface)
           /\ Removals(log) = <<>>
           /\ ret = TRUE

\* a successful setup for a vector holding the same username twice
C19_Witness ==
    /\ call.op = "RequestVpnSetup"
    /\ call.usernames = <<"testuser1", "testuser1">>
    /\ AllOk(log)
    /\ Len(log) = 8
    /\ ret = TRUE

(***************************************************************************)
(* C20. A punch whose primary add fails returns failure with that add as   *)
(* its only command, neither a secondary add nor a delete, and leaves      *)
(* ip6_enabled_ and both hole sets unchanged, whether ip6_enabled_ was     *)
(* true or false.                                                          *)
(***************************************************************************)
C20_Step ==
    (/\ call'.op \in PunchOps
     /\ log' # <<>>
     /\ IsAccept(log'[1], "AddAccept", kIpTablesPath)
     /\ ~log'[1].ok)
       => /\ Len(log') = 1
          /\ ret' = FALSE
          /\ UNCHANGED <<tcp_holes_, udp_holes_, ip6_enabled_>>

C20_PrimaryFailureStopsAdd == [][C20_Step]_vars

\* a failed primary add, alone in the log, with ip6_enabled_ true
C20_Witness ==
    /\ call.op \in PunchOps
    /\ Len(log) = 1
    /\ IsAccept(log[1], "AddAccept", kIpTablesPath)
    /\ ~log[1].ok
    /\ ret = FALSE
    /\ ip6_enabled_
    /\ tcp_holes_ # {}
    /\ Hole(call.port, call.interface) \notin HolesOf(call.op)

(***************************************************************************)
(* C21. The DeleteAcceptRules of a plug of a tracked pair issues the       *)
(* primary delete first; it issues the secondary delete exactly when       *)
(* ip6_enabled_ is true, also after a failed primary delete; no other      *)
(* command is issued, and the result is success exactly when every delete  *)
(* issued succeeded.                                                       *)
(***************************************************************************)
C21_Step ==
    (/\ call'.op \in PlugOps
     /\ Hole(call'.port, call'.interface) \in HolesOf(call'.op))
       => /\ Len(log') = IF ip6_enabled_ THEN 2 ELSE 1
          /\ IsAccept(log'[1], "DeleteAccept", kIpTablesPath)
          /\ ip6_enabled_ => IsAccept(log'[2], "DeleteAccept", kIp6TablesPath)
          /\ ret' = AllOk(log')

C21_DeletePolicy == [][C21_Step]_vars

\* the primary delete failed and the secondary delete was issued all the same
C21_Witness ==
    /\ call.op \in PlugOps
    /\ Len(log) = 2
    /\ IsAccept(log[1], "DeleteAccept", kIpTablesPath) /\ ~log[1].ok
    /\ IsAccept(log[2], "DeleteAccept", kIp6TablesPath) /\ log[2].ok
    /\ ip6_enabled_
    /\ ret = FALSE

(***************************************************************************)
(* C22. Every masquerade or mark command on the primary subsystem, in a    *)
(* VPN call made with ip6_enabled_ true or false: a failed add is followed *)
(* by no add (the secondary add is left out); a successful add is followed *)
(* at once by the secondary add of the same rule, after which the call     *)
(* goes on adding or returns success if that add succeeded, and rolls back *)
(* and returns failure if it failed; a removal is followed at once by the  *)
(* secondary removal of the same rule, whatever the primary removal        *)
(* returned, and a removal call that returns success had both succeed.     *)
(***************************************************************************)
IsPrimary46(c) ==
    /\ c.cmd \in {"Masquerade", "MarkForUserTraffic"}
    /\ c.path = kIpTablesPath

\* log[k + 1] is the command of log[k] on the secondary subsystem
SecondaryFollows(k) ==
    /\ k + 1 <= Len(log)
    /\ log[k + 1].add = log[k].add
    /\ RuleOf(log[k + 1]) = RuleOf([log[k] EXCEPT !.path = kIp6TablesPath])

C22_OnePolicy46 ==
    call.op \in {"RequestVpnSetup", "RemoveVpnSetup"}
        => \A k \in 1..Len(log) :
               IsPrimary46(log[k])
                   => /\ (log[k].add /\ ~log[k].ok)
                          => /\ \A j \in (k + 1)..Len(log) : ~log[j].add
                             /\ ret = FALSE
                      /\ (log[k].add /\ log[k].ok)
                          => /\ SecondaryFollows(k)
                             /\ log[k + 1].ok
                                    => IF k + 1 = Len(log) THEN ret = TRUE
                                       ELSE log[k + 2].add
                             /\ ~log[k + 1].ok
                                    => /\ ret = FALSE
                                       /\ k + 1 < Len(log)
                                       /\ \A j \in (k + 2)..Len(log) : ~log[j].add
                      /\ ~log[k].add
                          => /\ SecondaryFollows(k)
                             /\ (call.op = "RemoveVpnSetup" /\ ret)
                                    => log[k].ok /\ log[k + 1].ok

\* with ip6_enabled_ false: a failed primary masquerade removal followed by
\* the secondary one, and a mark pair whose secondary add failed
C22_Witness ==
    /\ ~ip6_enabled_
    /\ call.op = "RequestVpnSetup"
    /\ Len(log) = 10
    /\ IsPrimary46(log[5]) /\ log[5].add /\ log[5].ok
    /\ ~log[6].ok
    /\ IsPrimary46(log[9]) /\ ~log[9].add /\ ~log[9].ok
    /\ log[10].ok

(***************************************************************************)
(* C23. Every VPN call over n usernames completes, whatever the commands   *)
(* return, with at most 4 + 2n add commands and at most 4 + 2n removal     *)
(* commands. The removals of RequestVpnSetup are those of one removal call *)
(* over a prefix of the usernames, issued after the last add: a rollback   *)
(* starts at most once and starts no rollback of its own.                  *)
(***************************************************************************)
MaxCommands(usernames) == 4 + 2 * Len(usernames)

C23_BoundedCommands ==
    /\ call.op = "IpTables" => ENABLED NextVpn
    /\ call.op \in {"RequestVpnSetup", "RemoveVpnSetup"}
          => /\ Len(Adds(log)) <= MaxCommands(call.usernames)
             /\ Len(Removals(log)) <= MaxCommands(call.usernames)
    /\ call.op = "RequestVpnSetup"
          => /\ log = Adds(log) \o Removals(log)
             /\ \/ Removals(log) = <<>>
                \/ \E k \in 0..Len(call.usernames) :
                       RulesOf(Removals(log))
                           = SetupRules(SubSeq(call.usernames, 1, k), call.interface)

\* the longest rollback: the last of MaxUsers usernames failed
C23_Witness ==
    /\ call.op = "RequestVpnSetup"
    /\ Len(call.usernames) = 2
    /\ Len(Adds(log)) = 8
    /\ Len(Removals(log)) = 6
    /\ ret = FALSE

(***************************************************************************)
(* C24. When every command succeeds: the accept rules installed in the     *)
(* primary tool are the rules of the tracked holes of both protocols, and  *)
(* so are those installed in the secondary tool; and each is installed     *)
(* once, since every add of a call is for a rule absent from its tool,     *)
(* every delete for a rule present in it, and no call issues two commands  *)
(* for the same rule on the same tool.                                     *)
(***************************************************************************)
HoleOps == PunchOps \cup PlugOps \cup {"PlugAllHoles", "~IpTables"}
CmdRule(c) == AcceptRule(c.protocol, c.port, c.interface)
InstalledOn(path) == IF path = kIpTablesPath THEN installed4 ELSE installed6

C24_Installed ==
    LET tracked == RulesOfHoles(tcp_holes_, kProtocolTcp)
                       \cup RulesOfHoles(udp_holes_, kProtocolUdp)
    IN  installed4 = tracked /\ installed6 = tracked

C24_Step ==
    call'.op \in HoleOps
        => \A k \in 1..Len(log') :
               LET c == log'[k]
               IN  /\ c.cmd = "AddAccept" => CmdRule(c) \notin InstalledOn(c.path)
                   /\ c.cmd = "DeleteAccept" => CmdRule(c) \in InstalledOn(c.path)
                   /\ \A j \in 1..Len(log') :
                          (j # k /\ log'[j].path = c.path) => CmdRule(log'[j]) # CmdRule(c)

C24_InstalledExactlyTracked == [](C24_Installed) /\ [][C24_Step]_vars

\* holes of both protocols tracked, after a punch of a tracked pair and
\* with some pair plugged before
C24_Witness ==
    /\ Cardinality(tcp_holes_) = 4
    /\ Cardinality(udp_holes_) = 3
    /\ call.op = "PunchUdpHole"
    /\ Hole(call.port, call.interface) \in udp_holes_
    /\ log = <<>>
    /\ ret = TRUE
    /\ Cardinality(installed4) = 7
    /\ Cardinality(installed6) = 7

(***************************************************************************)
(* C25. PunchTcpHole and PlugTcpHole leave udp_holes_ unchanged, and       *)
(* PunchUdpHole and PlugUdpHole leave tcp_holes_ unchanged. A pair tracked *)
(* for one protocol only is untracked for the other: its plug for the      *)
(* other protocol fails without a command, its punch for the other         *)
(* protocol issues commands, for that protocol.                            *)
(***************************************************************************)
TcpOps == {"PunchTcpHole", "PlugTcpHole"}
UdpOps == {"PunchUdpHole", "PlugUdpHole"}
OtherHolesOf(op) == IF op \in TcpOps THEN udp_holes_ ELSE tcp_holes_

C25_Step ==
    /\ call'.op \in TcpOps => udp_holes_' = udp_holes_
    /\ call'.op \in UdpOps => tcp_holes_' = tcp_holes_
    /\ (/\ call'.op \in TcpOps \cup UdpOps
        /\ Hole(call'.port, call'.interface) \in OtherHolesOf(call'.op)
        /\ Hole(call'.port, call'.interface) \notin HolesOf(call'.op))
          => IF call'.op \in PlugOps
             THEN ret' = FALSE /\ log' = <<>>
             ELSE /\ log' # <<>>
                  /\ \A k \in 1..Len(log') : log'[k].protocol = ProtocolOf(call'.op)

C25_ProtocolsAreIndependent == [][C25_Step]_vars

\* a UDP plug of a pair tracked for TCP only has failed
C25_Witness ==
    /\ call.op = "PlugUdpHole"
    /\ Hole(call.port, call.interface) \in tcp_holes_
    /\ Hole(call.port, call.interface) \notin udp_holes_
    /\ udp_holes_ = {}
    /\ ret = FALSE
    /\ log = <<>>

(***************************************************************************)
(* C26. A VPN call, whatever its commands return, leaves both hole sets,   *)
(* ip6_enabled_ and the installed accept rules unchanged and issues        *)
(* routing-policy, masquerade and mark commands only; its commands and     *)
(* result are one of the runs of ApplyVpnSetup on its arguments, and on a  *)
(* fresh object each of these runs can happen with ip6_enabled_ true and   *)
(* with ip6_enabled_ false. A hole call issues accept-rule commands only.  *)
(***************************************************************************)
VpnOps == {"RequestVpnSetup", "RemoveVpnSetup"}
VpnCmds == {"RuleForUserTraffic", "Masquerade", "MarkForUserTraffic"}
AcceptCmds == {"AddAccept", "DeleteAccept"}

C26_Step ==
    /\ call'.op \in VpnOps
          => /\ UNCHANGED <<tcp_holes_, udp_holes_, ip6_enabled_, installed4, installed6>>
             /\ \A k \in 1..Len(log') : log'[k].cmd \in VpnCmds
             /\ [log |-> log', ret |-> ret']
                    \in VpnRuns[call'.usernames, call'.interface,
                                call'.op = "RequestVpnSetup"]
    /\ call'.op \in HoleOps
          => \A k \in 1..Len(log') : log'[k].cmd \in AcceptCmds

\* on the fresh object, whichever value ip6_enabled_ has
C26_EveryRunEitherFlag ==
    call.op = "IpTables"
        => \A u \in UsernameVectors, i \in VpnInterfaces :
               /\ \A r \in VpnRuns[u, i, TRUE] :
                      ENABLED (log' = r.log /\ ret' = r.ret /\ RequestVpnSetup(u, i))
               /\ \A r \in VpnRuns[u, i, FALSE] :
                      ENABLED (log' = r.log /\ ret' = r.ret /\ RemoveVpnSetup(u, i))

C26_VpnAndHolesApart == [](C26_EveryRunEitherFlag) /\ [][C26_Step]_vars

\* a failed setup with its rollback, made while a hole is tracked and
\* ip6_enabled_ is false
C26_Witness ==
    /\ call.op = "RequestVpnSetup"
    /\ call.usernames = <<"testuser0">>
    /\ ret = FALSE
    /\ Len(Removals(log)) = 4
    /\ tcp_holes_ # {}
    /\ installed4 # {}
    /\ ~ip6_enabled_

====
